---------------------------- MODULE Spec2Model ----------------------------
(***************************************************************************)
(* A model of exploration/FunWithWGS84.ipynb: the WGS84 class, the         *)
(* function line_coordinates_2d and the plotting helpers plot_earth and    *)
(* plot_line, run as notebook cells and calls in any order.                *)
(*                                                                         *)
(* Numbers.  The notebook computes in float64.  The model computes in      *)
(* exact real arithmetic, with one exception that the source itself        *)
(* fixes: numpy's pi is the double 3.141592653589793, which is smaller     *)
(* than the real number PI by eps ~ 1.2246e-16.  A number of the model is  *)
(*     (re + du * eps) / den                                               *)
(* where re and du are elements of Z[sqrt 2, sqrt 3, sqrt 6] (the ring     *)
(* that holds the sines and cosines of the multiples of 15 degrees) and    *)
(* eps is kept to first order (eps^2 ~ 1.5e-32 is dropped).  The rounding  *)
(* of the single float64 operations is not modelled.                       *)
(*                                                                         *)
(* Integers are arbitrary-precision (sequences of base-10000 digits):      *)
(* the WGS84 constants have 15 significant digits.                         *)
(***************************************************************************)
EXTENDS Integers, Sequences, FiniteSets, TLC

---------------------------------------------------------------------------
(* Arbitrary-precision naturals: little-endian digit sequences in base     *)
(* 10000, without leading zero digits; <<>> is 0.                          *)

Base == 100 * 100

RECURSIVE NatOf(_)
NatOf(n) == IF n = 0 THEN <<>> ELSE <<n % Base>> \o NatOf(n \div Base)

RECURSIVE Strip(_)
Strip(x) ==
    IF x = <<>> THEN <<>>
    ELSE IF x[Len(x)] = 0 THEN Strip(SubSeq(x, 1, Len(x) - 1))
    ELSE x

RECURSIVE AddC(_, _, _)
AddC(x, y, c) ==
    IF x = <<>> /\ y = <<>> THEN (IF c = 0 THEN <<>> ELSE <<c>>)
    ELSE LET p == IF x = <<>> THEN 0 ELSE Head(x)
             q == IF y = <<>> THEN 0 ELSE Head(y)
             s == p + q + c
         IN  <<s % Base>> \o AddC(IF x = <<>> THEN <<>> ELSE Tail(x),
                                  IF y = <<>> THEN <<>> ELSE Tail(y),
                                  s \div Base)

NatAdd(x, y) == IF x = <<>> THEN y ELSE IF y = <<>> THEN x ELSE AddC(x, y, 0)

(* -1, 0, 1 as x < y, x = y, x > y *)
RECURSIVE CmpFrom(_, _, _)
CmpFrom(x, y, i) ==
    IF i = 0 THEN 0
    ELSE IF x[i] < y[i] THEN -1
    ELSE IF x[i] > y[i] THEN 1
    ELSE CmpFrom(x, y, i - 1)

NatCmp(x, y) ==
    IF Len(x) < Len(y) THEN -1
    ELSE IF Len(x) > Len(y) THEN 1
    ELSE CmpFrom(x, y, Len(x))

(* x - y for x >= y *)
RECURSIVE SubB(_, _, _)
SubB(x, y, b) ==
    IF x = <<>> THEN <<>>
    ELSE LET q == IF y = <<>> THEN 0 ELSE Head(y)
             d == Head(x) - q - b
         IN  <<IF d < 0 THEN d + Base ELSE d>>
             \o SubB(Tail(x), IF y = <<>> THEN <<>> ELSE Tail(y),
                     IF d < 0 THEN 1 ELSE 0)

NatSub(x, y) == IF y = <<>> THEN x ELSE Strip(SubB(x, y, 0))

(* x * k + c for one digit k *)
RECURSIVE MulDigit(_, _, _)
MulDigit(x, k, c) ==
    IF x = <<>> THEN (IF c = 0 THEN <<>> ELSE <<c>>)
    ELSE LET s == Head(x) * k + c
         IN  <<s % Base>> \o MulDigit(Tail(x), k, s \div Base)

RECURSIVE NatMul(_, _)
NatMul(x, y) ==
    IF x = <<>> \/ y = <<>> THEN <<>>
    ELSE IF y = <<1>> THEN x
    ELSE IF x = <<1>> THEN y
    ELSE LET low  == IF Head(y) = 0 THEN <<>> ELSE MulDigit(x, Head(y), 0)
             high == NatMul(x, Tail(y))
         IN  NatAdd(low, IF high = <<>> THEN <<>> ELSE <<0>> \o high)

---------------------------------------------------------------------------
(* Signed integers: sign s in {-1, 0, 1} and magnitude m.                  *)

IntZ == [s |-> 0, m |-> <<>>]
IntOf(n) == IF n = 0 THEN IntZ
            ELSE IF n > 0 THEN [s |-> 1, m |-> NatOf(n)]
            ELSE [s |-> -1, m |-> NatOf(0 - n)]
IntNeg(x) == [s |-> 0 - x.s, m |-> x.m]
IntAbs(x) == [s |-> x.s * x.s, m |-> x.m]
IntMul(x, y) ==
    IF x.s = 0 \/ y.s = 0 THEN IntZ
    ELSE [s |-> x.s * y.s, m |-> NatMul(x.m, y.m)]
IntAdd(x, y) ==
    IF x.s = 0 THEN y
    ELSE IF y.s = 0 THEN x
    ELSE IF x.s = y.s THEN [s |-> x.s, m |-> NatAdd(x.m, y.m)]
    ELSE LET c == NatCmp(x.m, y.m)
         IN  IF c = 0 THEN IntZ
             ELSE IF c > 0 THEN [s |-> x.s, m |-> NatSub(x.m, y.m)]
             ELSE [s |-> y.s, m |-> NatSub(y.m, x.m)]
IntSub(x, y) == IntAdd(x, IntNeg(y))
IntLe(x, y) == IntSub(x, y).s <= 0

---------------------------------------------------------------------------
(* The ring Z[sqrt 2, sqrt 3, sqrt 6]: a vector <<c1, c2, c3, c6>> is      *)
(* c1 + c2*sqrt 2 + c3*sqrt 3 + c6*sqrt 6.                                 *)

VecZ == <<IntZ, IntZ, IntZ, IntZ>>
VecInt(x) == <<x, IntZ, IntZ, IntZ>>
VecIsZero(v) == \A i \in 1..4 : v[i].s = 0
VecIsRational(v) == \A i \in 2..4 : v[i].s = 0
VecAdd(v, w) == [i \in 1..4 |-> IntAdd(v[i], w[i])]
VecNeg(v) == [i \in 1..4 |-> IntNeg(v[i])]
VecScale(k, v) == [i \in 1..4 |-> IntMul(k, v[i])]
Two == IntOf(2)
Three == IntOf(3)
(* k * x for a digit k > 0 *)
IntScale(k, x) == [s |-> x.s, m |-> MulDigit(x.m, k, 0)]
(* the products v[i]*w[j]*k that make up each component of v*w, as         *)
(* <<i, j, k>>: sqrt 2 * sqrt 2 = 2, sqrt 3 * sqrt 6 = 3 sqrt 2, ...       *)
Terms ==
    << << <<1, 1, 1>>, <<2, 2, 2>>, <<3, 3, 3>>, <<4, 4, 6>> >>,
       << <<1, 2, 1>>, <<2, 1, 1>>, <<3, 4, 3>>, <<4, 3, 3>> >>,
       << <<1, 3, 1>>, <<3, 1, 1>>, <<2, 4, 2>>, <<4, 2, 2>> >>,
       << <<1, 4, 1>>, <<4, 1, 1>>, <<2, 3, 1>>, <<3, 2, 1>> >> >>
RECURSIVE SumTerms(_, _, _, _)
SumTerms(v, w, T, n) ==
    IF n = 0 THEN IntZ
    ELSE IntAdd(IntScale(T[n][3], IntMul(v[T[n][1]], w[T[n][2]])),
                SumTerms(v, w, T, n - 1))
VecMul(v, w) ==
    IF VecIsZero(v) \/ VecIsZero(w) THEN VecZ
    ELSE [k \in 1..4 |-> SumTerms(v, w, Terms[k], 4)]

(* the conjugates sqrt 2 -> -sqrt 2 and sqrt 3 -> -sqrt 3 *)
Conj2(v) == <<v[1], IntNeg(v[2]), v[3], IntNeg(v[4])>>
Conj3(v) == <<v[1], v[2], IntNeg(v[3]), IntNeg(v[4])>>

---------------------------------------------------------------------------
(* Numbers: (re + du*eps) / den with den > 0, eps = PI - pi, eps^2 = 0.    *)

Num(den, re, du) == [den |-> den, re |-> re, du |-> du]
One == IntOf(1)
Zero == Num(One, VecZ, VecZ)
FromInt(n) == Num(One, VecInt(IntOf(n)), VecZ)
(* the decimal literal ip.fp with k fractional digits *)
Decimal(ip, fp, k) ==
    Num(IntOf(10 ^ k),
        VecInt(IntAdd(IntMul(IntOf(ip), IntOf(10 ^ k)), IntOf(fp))), VecZ)

IsZero(x) == VecIsZero(x.re) /\ VecIsZero(x.du)
Neg(x) == Num(x.den, VecNeg(x.re), VecNeg(x.du))
Add(x, y) ==
    IF IsZero(x) THEN y
    ELSE IF IsZero(y) THEN x
    ELSE IF x.den = y.den
    THEN Num(x.den, VecAdd(x.re, y.re), VecAdd(x.du, y.du))
    ELSE Num(IntMul(x.den, y.den),
             VecAdd(VecScale(y.den, x.re), VecScale(x.den, y.re)),
             VecAdd(VecScale(y.den, x.du), VecScale(x.den, y.du)))
Sub(x, y) == Add(x, Neg(y))
Mul(x, y) ==
    IF IsZero(x) \/ IsZero(y) THEN Zero
    ELSE Num(IntMul(x.den, y.den), VecMul(x.re, y.re),
             VecAdd(VecMul(x.re, y.du), VecMul(x.du, y.re)))
Eq(x, y) == IsZero(Sub(x, y))

(* 1 / x for a number whose real part is not 0:                            *)
(* 1/(a + b eps) = 1/a - (b/a^2) eps, and 1/a by the conjugates of a:      *)
(* with y = v * Conj2(v) and c = Conj3(y), y * c is an integer and          *)
(* den / v = den * Conj2(v) * c / (y * c).                                 *)
InvReNorm(den, v, y, c) ==
    Num(IntAbs(VecMul(y, c)[1]),
        VecScale(IF VecMul(y, c)[1].s < 0 THEN IntNeg(den) ELSE den,
                 VecMul(Conj2(v), c)),
        VecZ)
InvReConj(den, v, y) == InvReNorm(den, v, y, Conj3(y))
InvRe(den, v) ==
    IF VecIsRational(v)
    THEN Num(IntAbs(v[1]),
             VecInt(IF v[1].s < 0 THEN IntNeg(den) ELSE den), VecZ)
    ELSE InvReConj(den, v, VecMul(v, Conj2(v)))
(* ia is den / re, t is ia^2 * du / den *)
InvDu(x, ia, t) == Sub(ia, Num(t.den, VecZ, t.re))
InvEps(x, ia) ==
    IF VecIsZero(x.du) THEN ia
    ELSE InvDu(x, ia, Mul(Mul(ia, ia), Num(x.den, x.du, VecZ)))
Inv(x) == InvEps(x, InvRe(x.den, x.re))
Div(x, y) == Mul(x, Inv(y))

(* the sign and the order of numbers with a rational real part and no      *)
(* eps part                                                                *)
Sign(x) == x.re[1].s
Abs(x) == IF Sign(x) < 0 THEN Neg(x) ELSE x
Le(x, y) == Sign(Sub(x, y)) <= 0

---------------------------------------------------------------------------
(* Angles are rational multiples n/d of numpy's pi, in lowest terms.       *)

RECURSIVE GCD(_, _)
GCD(m, n) == IF n = 0 THEN m ELSE GCD(n, m % n)
AbsInt(n) == IF n < 0 THEN 0 - n ELSE n
Angle(n, d) == LET g == GCD(AbsInt(n), d) IN [n |-> n \div g, d |-> d \div g]
AngAdd(x, y) == Angle(x.n * y.d + y.n * x.d, x.d * y.d)

(* numpy.pi, and pi / k *)
pi == Angle(1, 1)
PiOver(k) == Angle(pi.n, pi.d * k)
(* np.deg2rad(lat) = lat * (pi / 180) *)
deg2rad(x) == Angle(x * pi.n, 180 * pi.d)

(* sin of the true angle of k*15 degrees, times 4, for k = 1, ..., 6: the   *)
(* coefficients of 1, sqrt 2, sqrt 3 and sqrt 6                            *)
QuarterTable ==
    << <<0, -1, 0, 1>>, <<2, 0, 0, 0>>, <<0, 2, 0, 0>>,
       <<0, 0, 2, 0>>, <<0, 1, 0, 1>>, <<4, 0, 0, 0>> >>
SinQuarter(k) == IF k = 0 THEN <<0, 0, 0, 0>> ELSE QuarterTable[k]
SinSteps(k) ==
    LET r == k % 24
        q == IF r <= 6 THEN r ELSE IF r <= 12 THEN 12 - r
             ELSE IF r <= 18 THEN r - 12 ELSE 24 - r
        sgn == IF r <= 12 THEN 1 ELSE -1
    IN  [i \in 1..4 |-> IntOf(sgn * SinQuarter(q)[i])]
CosSteps(k) == SinSteps(k + 6)

(* np.sin and np.cos of the angle (n/d)*pi = (n/d)*PI - (n/d)*eps, for the *)
(* multiples of 15 degrees (d divides 12):                                 *)
(*   sin(x - h) = sin x - h cos x,   cos(x - h) = cos x + h sin x.         *)
sin(t) ==
    LET k == (12 \div t.d) * t.n
    IN  Num(IntOf(4 * t.d), VecScale(IntOf(t.d), SinSteps(k)),
            VecScale(IntOf(0 - t.n), CosSteps(k)))
cos(t) ==
    LET k == (12 \div t.d) * t.n
    IN  Num(IntOf(4 * t.d), VecScale(IntOf(t.d), CosSteps(k)),
            VecScale(IntOf(t.n), SinSteps(k)))

(* np.sqrt of a number that is no square in the ring: the root is kept as  *)
(* its radicand, and x**2 gives the radicand back.                         *)
sqrt(x) == [sqrt |-> x]
Pow2(x) == IF "sqrt" \in DOMAIN x THEN x.sqrt ELSE Mul(x, x)

(* np.allclose(x, y): |x - y| <= atol + rtol * |y|, atol 1e-8, rtol 1e-5 *)
allclose(x, y) ==
    Le(Abs(Sub(x, y)), Add(Decimal(0, 1, 8), Mul(Decimal(0, 1, 5), Abs(y))))

(* numpy.linalg.inv of a 2x2 matrix <<row 1, row 2>>: the adjugate over    *)
(* the determinant; a singular matrix raises LinAlgError.                  *)
det(A) == Sub(Mul(A[1][1], A[2][2]), Mul(A[1][2], A[2][1]))
Singular(A) == VecIsZero(det(A).re)
Adjugate(A) == << <<A[2][2], Neg(A[1][2])>>, <<Neg(A[2][1]), A[1][1]>> >>
MatScale(M, r) == [i \in 1..2 |-> [j \in 1..2 |-> Mul(M[i][j], r)]]
(* a variant: the adjugate taken for the inverse, not divided by det(A)  *)
InvNoDet(A) == Adjugate(A)
inv(A) == MatScale(Adjugate(A), Inv(det(A)))
(* matrix * column vector *)
MatVec(M, v) ==
    << Add(Mul(M[1][1], v[1]), Mul(M[1][2], v[2])),
       Add(Mul(M[2][1], v[1]), Mul(M[2][2], v[2])) >>
VecSub2(u, v) == <<Sub(u[1], v[1]), Sub(u[2], v[2])>>

---------------------------------------------------------------------------
(* The notebook's state.                                                   *)
(*   WGS84   the class object (its attributes), <<>> before its cell ran   *)
(*   ax      the module-level name ax: an index into axes, 0 when unbound  *)
(*   axes    the Axes objects created so far                               *)
(*   lat     the module-level name lat (the loop variable)                 *)
(*   line    the module-level name line: the last value returned by        *)
(*           line_coordinates_2d, [err |-> "unbound"] before the first     *)
(*   frame   the local variables of the last call of line_coordinates_2d   *)
(*   err     the exception the last operation raised, "none" otherwise     *)
(*   seen    history: an earlier call of line_coordinates_2d, with its     *)
(*           argument, its value and the number of plot calls before it    *)
(*   plots   history: the number of plot_earth/plot_line calls that drew,  *)
(*           and the number of them before the last line_coordinates_2d    *)

VARIABLES WGS84, ax, axes, lat, line, frame, err, seen, plots
vars == <<WGS84, ax, axes, lat, line, frame, err, seen, plots>>

Bound(c) == "a" \in DOMAIN c
Returned(l) == l.err = "none"

---------------------------------------------------------------------------
(* class WGS84 *)

(* a variant: a class body with two digits of b exchanged *)
ClassBodyWrongB ==
    LET a == FromInt(6378137)
        b == Decimal(6365752, 31424518, 8)
        f == Div(FromInt(1), Decimal(298, 257223563, 9))
    IN  [a   |-> a,
         b   |-> b,
         f   |-> f,
         e   |-> sqrt(Div(Sub(Pow2(a), Pow2(b)), Pow2(a))),
         e_p |-> sqrt(Div(Sub(Pow2(a), Pow2(b)), Pow2(b)))]
WGS84_a == 6378137
ClassBody ==
    LET a == FromInt(WGS84_a)
        b == Decimal(6356752, 31424518, 8)
        f == Div(FromInt(1), Decimal(298, 257223563, 9))
    IN  [a   |-> a,
         b   |-> b,
         f   |-> f,
         e   |-> sqrt(Div(Sub(Pow2(a), Pow2(b)), Pow2(a))),
         e_p |-> sqrt(Div(Sub(Pow2(a), Pow2(b)), Pow2(b)))]
(* assert(np.allclose(b, a*(1-f))) *)
ClassAssert(c) == allclose(c.b, Mul(c.a, Sub(FromInt(1), c.f)))

(* running the cell of class WGS84: a failed assert leaves the name unbound *)
ClassCell ==
    /\ ~Bound(WGS84)
    /\ \E c \in {ClassBody} :
         IF ClassAssert(c)
         THEN WGS84' = c /\ err' = "none"
         ELSE WGS84' = WGS84 /\ err' = "AssertionError"
    /\ UNCHANGED <<ax, axes, lat, line, frame, seen, plots>>

---------------------------------------------------------------------------
(* def line_coordinates_2d(lat); c is the class object WGS84 the body      *)
(* reads when it runs                                                      *)

(* theta1, theta2 = np.deg2rad(lat), np.deg2rad(lat) + pi / 2. *)
Theta1(l) == deg2rad(l)
(* a variant: theta2 half a turn from theta1 *)
Theta2Pi(l) == AngAdd(deg2rad(l), pi)
Theta2(l) == AngAdd(deg2rad(l), PiOver(2))
(* delta = WGS84.e**2 * WGS84.a * sin(theta1); variants with              *)
(* sin(theta1)**2, with cos(theta1) and with WGS84.b                       *)
DeltaSinSq(c, theta1) ==
    Mul(Mul(Pow2(c.e), c.a), Mul(sin(theta1), sin(theta1)))
DeltaCos(c, theta1) == Mul(Mul(Pow2(c.e), c.a), cos(theta1))
DeltaB(c, theta1) == Mul(Mul(Pow2(c.e), c.b), sin(theta1))
Delta(c, theta1) == Mul(Mul(Pow2(c.e), c.a), sin(theta1))
(* u1 = np.array([0, 0]); u2 = np.array([0, delta]) *)
U1 == <<Zero, Zero>>
U2(delta) == <<Zero, delta>>
(* A = np.matrix([[sin(theta1), -sin(theta2)],                            *)
(*                [-cos(theta1), cos(theta2)]])                            *)
MatrixA(theta1, theta2) ==
    << <<sin(theta1), Neg(sin(theta2))>>,
       <<Neg(cos(theta1)), cos(theta2)>> >>
(* tau = inv(A) * (u2 - u1).reshape((2,1)); a variant with u1 - u2 *)
RhsSwapped(u1, u2) == VecSub2(u1, u2)
Rhs(u1, u2) == VecSub2(u2, u1)
Tau(A, u1, u2) == MatVec(inv(A), Rhs(u1, u2))
(* return (theta2, tau[0,0]); a variant that returns theta1 *)
ReturnTheta1(theta1, theta2, tau) == <<theta1, tau[1]>>
Return(theta1, theta2, tau) == <<theta2, tau[1]>>

(* the locals at the return, or at the raise of inv *)
Frame(l, theta1, theta2, delta, A) ==
    [lat |-> l, theta1 |-> theta1, theta2 |-> theta2, delta |-> delta,
     u1 |-> U1, u2 |-> U2(delta), A |-> A,
     tau |-> IF Singular(A) THEN <<>> ELSE Tau(A, U1, U2(delta))]
LocalsOf(c, l) ==
    Frame(l, Theta1(l), Theta2(l), Delta(c, Theta1(l)),
          MatrixA(Theta1(l), Theta2(l)))
line_coordinates_2d(loc) ==
    IF loc.tau = <<>> THEN [err |-> "LinAlgError"]
    ELSE LET r == Return(loc.theta1, loc.theta2, loc.tau)
         IN  [err |-> "none", angle |-> r[1], offset |-> r[2]]

(* for lat in [0., 15., 45., 75., 90.] *)
DriverLats == {0, 15, 45, 75, 90}
(* the latitudes -15*MaxLatSteps, ..., -15, 0, 15, ..., 15*MaxLatSteps *)
MaxLatSteps == 7
Lats == {15 * k : k \in (0 - MaxLatSteps) .. MaxLatSteps}

(* the value T[k] of a table of values computed before, or else d *)
Lookup(T, k, d) == IF k \in DOMAIN T THEN T[k] ELSE d

(* LocalsOf is a pure function of c and l: its values for the attributes   *)
(* the class body sets are computed once                                   *)
LocalsEntry(c, l) == <<c, l>> :> LocalsOf(c, l)
RECURSIVE LocalsTable(_)
LocalsTable(D) ==
    IF D = {} THEN <<>>
    ELSE LET l == CHOOSE k \in D : TRUE
         IN  LocalsEntry(ClassBody, l) @@ LocalsTable(D \ {l})
LocalsMemo == LocalsTable(Lats \cup DriverLats)
Locals(l) == Lookup(LocalsMemo, <<WGS84, l>>, LocalsOf(WGS84, l))

(* a variant: a call whose body reads the module-level lat in place of   *)
(* its argument                                                            *)
CallGlobalLat(l) ==
    /\ lat' = l
    /\ IF ~Bound(WGS84)
       THEN /\ err' = "NameError"
            /\ UNCHANGED <<line, frame, seen, plots>>
       ELSE \E loc \in {Locals(lat)} : \E r \in {line_coordinates_2d(loc)} :
            /\ frame' = loc
            /\ err' = r.err
            /\ line' = IF Returned(r) THEN r ELSE line
            /\ plots' = [plots EXCEPT !.atCall = plots.n]
            /\ \E keep \in BOOLEAN :
                 seen' = IF keep /\ Returned(r)
                         THEN [lat |-> l, line |-> r, plots |-> plots.n]
                         ELSE seen
    /\ UNCHANGED <<WGS84, ax, axes>>

(* line = line_coordinates_2d(lat), as the loop of the driver cell and the *)
(* example cell call it; the history may keep this call in seen            *)
Call(l) ==
    /\ lat' = l
    /\ IF ~Bound(WGS84)
       THEN /\ err' = "NameError"
            /\ UNCHANGED <<line, frame, seen, plots>>
       ELSE \E loc \in {Locals(l)} : \E r \in {line_coordinates_2d(loc)} :
            /\ frame' = loc
            /\ err' = r.err
            /\ line' = IF Returned(r) THEN r ELSE line
            /\ plots' = [plots EXCEPT !.atCall = plots.n]
            /\ \E keep \in BOOLEAN :
                 seen' = IF keep /\ Returned(r)
                         THEN [lat |-> l, line |-> r, plots |-> plots.n]
                         ELSE seen
    /\ UNCHANGED <<WGS84, ax, axes>>

---------------------------------------------------------------------------
(* The plotting cells.  An Axes object holds its artists (add_artist), its *)
(* lines (plot) and its limits; limits are automatic until set.            *)

(* at most MaxAxes Axes objects are created and at most MaxPlots calls of    *)
(* plot_earth and plot_line draw                                           *)
MaxAxes == 2
MaxPlots == 1

AutoLim == [auto |-> TRUE]
Lim(lo, hi) == [auto |-> FALSE, lo |-> lo, hi |-> hi]
NewAxesObject == [artists |-> <<>>, lines |-> <<>>,
                  xlim |-> AutoLim, ylim |-> AutoLim]

(* fig = plt.figure(); ax = fig.add_subplot(111) *)
NewAxes ==
    /\ Len(axes) < MaxAxes
    /\ axes' = Append(axes, NewAxesObject)
    /\ ax' = Len(axes) + 1
    /\ err' = "none"
    /\ UNCHANGED <<WGS84, lat, line, frame, seen, plots>>

(* def plot_earth(axes, margin=(1000000,)): the body draws on the          *)
(* module-level ax, whatever axes is passed                                *)
DefaultMargin == <<FromInt(1000000)>>
EarthEllipse ==
    [kind |-> "Ellipse", xy |-> <<Zero, Zero>>,
     width |-> Mul(FromInt(2), WGS84.a), height |-> Mul(FromInt(2), WGS84.b)]
EarthLims(target, x_m, y_m) ==
    [axes EXCEPT ![target].artists = Append(@, EarthEllipse),
                 ![target].xlim = Lim(Neg(x_m), x_m),
                 ![target].ylim = Lim(Neg(y_m), y_m)]
plot_earth(target, margin) ==
    EarthLims(target, Add(WGS84.a, margin[1]),
              Add(WGS84.b, margin[Len(margin)]))
(* a variant: a plot_earth that adds the margin to WGS84.a itself *)
PlotEarthWritesA(X) ==
    /\ plots.n < MaxPlots
    /\ IF ~Bound(WGS84) \/ ax = 0
       THEN err' = "NameError" /\ UNCHANGED <<WGS84, axes, plots>>
       ELSE /\ WGS84' = [WGS84 EXCEPT !.a = Add(@, DefaultMargin[1])]
            /\ axes' = plot_earth(ax, DefaultMargin)
            /\ plots' = [plots EXCEPT !.n = @ + 1]
            /\ err' = "none"
    /\ UNCHANGED <<ax, lat, line, frame, seen>>
PlotEarth(X) ==
    /\ plots.n < MaxPlots
    /\ IF ~Bound(WGS84) \/ ax = 0
       THEN err' = "NameError" /\ UNCHANGED <<axes, plots>>
       ELSE /\ axes' = plot_earth(ax, DefaultMargin)
            /\ plots' = [plots EXCEPT !.n = @ + 1]
            /\ err' = "none"
    /\ UNCHANGED <<WGS84, ax, lat, line, frame, seen>>

(* def plot_line(axes, line, tau, color, linewidth): the points            *)
(* u + tau*e, one row for each entry of tau, plotted on the module-level   *)
(* ax                                                                      *)
PntsFrom(tau, u, e) ==
    [i \in 1..Len(tau) |->
       <<Add(u[1], Mul(tau[i], e[1])), Add(u[2], Mul(tau[i], e[2]))>>]
Pnts(ln, tau) ==
    PntsFrom(tau,
             <<Mul(ln.offset, cos(ln.angle)), Mul(ln.offset, sin(ln.angle))>>,
             <<sin(ln.angle), Neg(cos(ln.angle))>>)
plot_line(target, pnts, color) ==
    [axes EXCEPT ![target].lines =
       Append(@, [kind |-> "Line2D", c |-> color,
                  x |-> [i \in 1..Len(pnts) |-> pnts[i][1]],
                  y |-> [i \in 1..Len(pnts) |-> pnts[i][2]]])]
(* the driver's call: plot_line(ax, line, tau=[-pseudo_r/2., pseudo_r],    *)
(* color=(np.ones(3)*lat/90.)) with pseudo_r = (WGS84.a + WGS84.b) / 2     *)
PseudoR(c) == Div(Add(c.a, c.b), FromInt(2))
TauOf(pseudo_r) == <<Neg(Div(pseudo_r, FromInt(2))), pseudo_r>>
DriverTau(c) == TauOf(PseudoR(c))
DriverColor(l) == Div(FromInt(l), FromInt(90))
(* Pnts is a pure function: its values for the lines of the class body's   *)
(* attributes are computed once                                            *)
PntsEntry(c, r) ==
    IF Returned(r) THEN <<c, r>> :> Pnts(r, DriverTau(c)) ELSE <<>>
PntsFor(c, l) == PntsEntry(c, line_coordinates_2d(LocalsOf(c, l)))
RECURSIVE PntsTable(_)
PntsTable(D) ==
    IF D = {} THEN <<>>
    ELSE LET l == CHOOSE k \in D : TRUE
         IN  PntsFor(ClassBody, l) @@ PntsTable(D \ {l})
PntsMemo == PntsTable(Lats \cup DriverLats)
DriverPnts == Lookup(PntsMemo, <<WGS84, line>>, Pnts(line, DriverTau(WGS84)))
PlotLine(X) ==
    /\ plots.n < MaxPlots
    /\ IF ~Bound(WGS84) \/ ~Returned(line) \/ ax = 0
       THEN err' = "NameError" /\ UNCHANGED <<axes, plots>>
       ELSE /\ axes' = plot_line(ax, DriverPnts, DriverColor(lat))
            /\ plots' = [plots EXCEPT !.n = @ + 1]
            /\ err' = "none"
    /\ UNCHANGED <<WGS84, ax, lat, line, frame, seen>>

---------------------------------------------------------------------------
(* The notebook: the cells and calls in any order.  The driver cell is     *)
(* taken apart into its statements; its two last lines, which zoom the     *)
(* plot with set_xlim and set_ylim, are left out.                          *)

Unbound == [err |-> "unbound"]
Init ==
    /\ WGS84 = <<>>
    /\ ax = 0
    /\ axes = <<>>
    /\ lat = 0
    /\ line = Unbound
    /\ frame = [lat |-> 0, tau |-> <<>>]
    /\ err = "none"
    /\ seen = [lat |-> 0, line |-> Unbound, plots |-> 0]
    /\ plots = [n |-> 0, atCall |-> 0]

Next ==
    \/ ClassCell
    \/ \E l \in DriverLats : Call(l)
    \/ NewAxes
    \/ \E X \in 1..Len(axes) : PlotEarth(X)
    \/ \E X \in 1..Len(axes) : PlotLine(X)

Spec == Init /\ [][Next]_vars

(* The class cell and line_coordinates_2d alone, on all of Lats.           *)
NextCalc ==
    \/ ClassCell
    \/ \E l \in Lats : Call(l)
SpecCalc == Init /\ [][NextCalc]_vars

---------------------------------------------------------------------------
(* Reading the numbers of the model as reals.                              *)

(* the decimal literal ip.fp1fp2 with k1 + k2 fractional digits *)
Decimal2(ip, fp1, k1, fp2, k2) ==
    Add(Decimal(ip, fp1, k1), Mul(Decimal(0, fp2, k2), Decimal(0, 1, k1)))
(* eps = PI - pi = 1.2246...e-16 lies between EpsLo and EpsHi *)
EpsLo == Mul(Decimal(0, 122, 9), Decimal(0, 1, 9))
EpsHi == Mul(Decimal(0, 123, 9), Decimal(0, 1, 9))
(* numpy's pi as a decimal: the double 3.141592653589793 *)
PiDouble == Decimal2(3, 141592653, 9, 589793, 6)
AngleValue(t) == Mul(Num(IntOf(t.d), VecInt(IntOf(t.n)), VecZ), PiDouble)
RePart(x) == Num(x.den, x.re, VecZ)
(* |x - y| <= 1e-9 for x and y with rational parts, whatever eps is in its *)
(* bounds (the difference is linear in eps); in integers, all multiplied   *)
(* by the denominators of x, y, eps and the tolerance                      *)
Tol == Decimal(0, 1, 9)
Scaled(x, e) == IntAdd(IntMul(x.re[1], e.den), IntMul(x.du[1], e.re[1]))
Near(x, y) ==
    /\ VecIsRational(x.re) /\ VecIsRational(x.du)
    /\ VecIsRational(y.re) /\ VecIsRational(y.du)
    /\ \A e \in {EpsLo, EpsHi} :
         LET diff == IntSub(IntMul(Scaled(x, e), y.den),
                            IntMul(Scaled(y, e), x.den))
         IN  IntLe(IntMul(IntAbs(diff), Tol.den),
                   IntMul(IntMul(IntMul(x.den, y.den), e.den), Tol.re[1]))

(* the last call of line_coordinates_2d has run to its return *)
Called == "A" \in DOMAIN frame /\ frame.tau # <<>>

---------------------------------------------------------------------------
(* C1: for every latitude L, also outside [-90, 90], the first component   *)
(* line_coordinates_2d(L) returns is deg2rad(L) + pi/2 = ((L + 90)/180)*pi *)
(* and it is the theta2 computed before delta, A and inv(A).               *)
C1_AngleIsLatPlusQuarterTurn ==
    Returned(line) =>
        /\ line.angle.n * 180 = (lat + 90) * line.angle.d
        /\ line.angle.d > 0
        /\ line.angle = frame.theta2
(* a call with a latitude above 90 degrees has returned *)
C1_Witness == Returned(line) /\ lat > 90 /\ frame.lat = lat

(* C2: for latitude 45 the angle is 3*pi/4, about 2.356194490192345, and   *)
(* the offset is negative, about -21348.836353589373, and equal to         *)
(* -(a^2 - b^2)/(2a) for a = 6378137 and b = 6356752.31424518, all within  *)
(* 1e-9.                                                                   *)
C2_Lat45 ==
    Returned(line) /\ lat = 45 =>
        /\ line.angle.n * 4 = 3 * line.angle.d
        /\ Near(AngleValue(line.angle), Decimal2(2, 356194490, 9, 192345, 6))
        /\ Near(line.offset, Neg(Decimal2(21348, 836353589, 9, 373, 3)))
        /\ Sign(RePart(line.offset)) < 0
        /\ Eq(WGS84.a, FromInt(6378137))
        /\ Eq(WGS84.b, Decimal(6356752, 31424518, 8))
        /\ Near(line.offset,
                Neg(Div(Sub(Mul(WGS84.a, WGS84.a), Mul(WGS84.b, WGS84.b)),
                        Mul(FromInt(2), WGS84.a))))
(* the call with latitude 45 has returned *)
C2_Witness == Returned(line) /\ lat = 45 /\ frame.lat = 45

(* C3: the system line_coordinates_2d solves has the matrix                *)
(* [[sin theta1, -sin theta2], [-cos theta1, cos theta2]] and the          *)
(* right-hand side u2 - u1 = [0, Delta] - [0, 0] = [0, Delta], the point   *)
(* of line 2 minus the point of line 1: A * tau = [0, Delta].              *)
C3_SystemSolved ==
    Called =>
        LET t1 == deg2rad(frame.lat)
            t2 == frame.theta2
            At == MatVec(frame.A, frame.tau)
        IN  /\ frame.A = << <<sin(t1), Neg(sin(t2))>>,
                            <<Neg(cos(t1)), cos(t2)>> >>
            /\ Eq(frame.delta, Mul(Mul(Pow2(WGS84.e), WGS84.a), sin(t1)))
            /\ IsZero(At[1])
            /\ Eq(At[2], frame.delta)
(* a call with a Delta that is not 0 has returned *)
C3_Witness == Called /\ ~IsZero(frame.delta) /\ frame.lat = 15
(* C3 as stated: the right-hand side is [0,0] - [0,Delta] = [0, -Delta],   *)
(* A * tau = [0, -Delta].                                                  *)
C3_Original ==
    Called =>
        LET At == MatVec(frame.A, frame.tau)
        IN  IsZero(At[1]) /\ Eq(At[2], Neg(frame.delta))

(* C4 as stated: the line {p : p . (cos angle, sin angle) = offset} of the *)
(* returned pair passes through (0, Delta):                                *)
(* 0 * cos(angle) + Delta * sin(angle) = offset.  Only the parts free of   *)
(* eps are compared.                                                       *)
C4_LineThroughDelta ==
    Called /\ Returned(line) /\ frame.lat = lat =>
        VecIsZero(Sub(Add(Mul(Zero, cos(line.angle)),
                          Mul(frame.delta, sin(line.angle))),
                      line.offset).re)

(* an upper bound of |v| for v in the ring: sqrt 2 < 2, sqrt 3 < 2 and     *)
(* sqrt 6 < 3                                                              *)
VecBound(v) ==
    IntAdd(IntAdd(IntAbs(v[1]), IntMul(Two, IntAbs(v[2]))),
           IntAdd(IntMul(Two, IntAbs(v[3])), IntMul(Three, IntAbs(v[4]))))
(* an earlier call with the latitude -lat and the last call, both returned *)
Mirrored == Returned(seen.line) /\ Returned(line) /\ seen.lat = 0 - lat

(* C5, amended: offset(-L) and offset(L) are opposite up to the rounding   *)
(* of pi: their sum has no part free of eps and is at most 1e-9 in         *)
(* magnitude; and angle(-L) = pi - angle(L).                               *)
C5_OddUpToRounding ==
    Mirrored =>
        LET sum == Add(seen.line.offset, line.offset)
        IN  /\ VecIsZero(sum.re)
            /\ IntLe(IntMul(IntMul(VecBound(sum.du), EpsHi.re[1]), Tol.den),
                     IntMul(IntMul(sum.den, EpsHi.den), Tol.re[1]))
            /\ AngAdd(seen.line.angle, line.angle) = pi
(* the calls with the latitudes -90 and 90 have returned *)
C5_Witness == Mirrored /\ lat = 90
(* C5 as stated: offset(-L) == -offset(L) for all L *)
C5_Original ==
    Mirrored => Eq(seen.line.offset, Neg(line.offset))

C7_Equator ==
    Called /\ Returned(line) /\ lat = 0 =>
        /\ line.angle = PiOver(2)
        /\ IsZero(line.offset)
        /\ IsZero(frame.delta)
        /\ \A i \in 1..2 : IsZero(VecSub2(frame.u2, frame.u1)[i])
(* the call with latitude 0 has returned *)
C7_Witness == Called /\ Returned(line) /\ lat = 0 /\ frame.lat = 0

(* C8: after any sequence of calls of line_coordinates_2d, plot_earth and  *)
(* plot_line the attributes a, b, f, e and e_p of WGS84 have the values    *)
(* the class body gave them.                                               *)
C8_ConstantsNeverMutated ==
    Bound(WGS84) =>
        /\ WGS84 = ClassBody
        /\ WGS84.a = FromInt(6378137)
        /\ WGS84.b = Decimal(6356752, 31424518, 8)
(* line_coordinates_2d has returned and then plot_earth or plot_line has   *)
(* drawn                                                                   *)
C8_Witness ==
    /\ Bound(WGS84) /\ Returned(line) /\ plots.atCall < plots.n
    /\ \E i \in 1..Len(axes) :
         Len(axes[i].artists) > 0 \/ Len(axes[i].lines) > 0

(* C9: the class assertion |b - a(1-f)| <= 1e-8 + 1e-5*|a(1-f)| holds for  *)
(* a = 6378137, b = 6356752.31424518, f = 1/298.257223563, the class cell  *)
(* never raises AssertionError, and e^2 = (a^2 - b^2)/a^2.                 *)
C9_ConstantsConsistent ==
    /\ err # "AssertionError"
    /\ Bound(WGS84) =>
          LET a   == WGS84.a
              b   == WGS84.b
              f   == WGS84.f
              rhs == Mul(a, Sub(FromInt(1), f))
          IN  /\ Eq(a, FromInt(6378137))
              /\ Eq(b, Decimal(6356752, 31424518, 8))
              /\ Eq(Mul(f, Decimal(298, 257223563, 9)), FromInt(1))
              /\ Le(Abs(Sub(b, rhs)),
                    Add(Decimal(0, 1, 8), Mul(Decimal(0, 1, 5), Abs(rhs))))
              /\ Eq(Mul(Pow2(WGS84.e), Mul(a, a)), Sub(Mul(a, a), Mul(b, b)))
(* the class cell has run and nothing else *)
C9_Witness == Bound(WGS84) /\ err = "none" /\ line = Unbound

(* C10: two calls of line_coordinates_2d with the same latitude return     *)
(* identical pairs, whatever calls of line_coordinates_2d, plot_earth and  *)
(* plot_line happen between them.                                          *)
C10_SameLatitudeSameResult ==
    Returned(seen.line) /\ Returned(line) /\ seen.lat = lat =>
        seen.line = line
(* two calls with the same latitude and a plot call that drew between them *)
C10_Witness ==
    /\ Returned(seen.line) /\ Returned(line) /\ seen.lat = lat
    /\ seen.plots < plots.atCall

---------------------------------------------------------------------------
(* Bounds of the numbers as reals: sqrt 2, sqrt 3 and sqrt 6 lie between   *)
(* RootLo[i]/RootScale and RootHi[i]/RootScale, eps between EpsLo and      *)
(* EpsHi.                                                                  *)
RootScale == IntOf(100000000)
RootLo == <<RootScale, IntOf(141421356), IntOf(173205080), IntOf(244948974)>>
RootHi == <<RootScale, IntOf(141421357), IntOf(173205081), IntOf(244948975)>>
RECURSIVE VecHi(_, _)
(* an upper bound of RootScale * v[1..n] *)
VecHi(v, n) ==
    IF n = 0 THEN IntZ
    ELSE IntAdd(IntMul(v[n], IF v[n].s < 0 THEN RootLo[n] ELSE RootHi[n]),
                VecHi(v, n - 1))
(* an upper bound of RootScale * E.den * (re + du * eps), h the upper      *)
(* bound of RootScale * du and E the bound of eps that makes h * eps       *)
(* largest                                                                 *)
NumHiAt(re, h, E) == IntAdd(IntMul(VecHi(re, 4), E.den), IntMul(h, E.re[1]))
NumHiEps(re, h) == NumHiAt(re, h, IF h.s < 0 THEN EpsLo ELSE EpsHi)
NumHi(x) == NumHiEps(x.re, VecHi(x.du, 4))
Negative(x) == NumHi(x).s < 0
Positive(x) == Negative(Neg(x))
AtMost(x, y) == NumHi(Sub(x, y)).s <= 0
(* |x - y| <= 1e-9 *)
Close(x, y) == AtMost(Sub(x, y), Tol) /\ AtMost(Sub(y, x), Tol)

(* -e^2 * a * sin(theta1) * cos(theta1), the first component of the        *)
(* solution of A * tau = [0, Delta] by Cramer's rule with det A = -1       *)
ClosedForm(c, theta1) ==
    Neg(Mul(Mul(Pow2(c.e), c.a), Mul(sin(theta1), cos(theta1))))
(* e^2 * a / 2 *)
HalfK(c) == Div(Mul(Pow2(c.e), c.a), FromInt(2))
(* the last call has returned and its locals are those of its latitude *)
ReturnedFor == Called /\ Returned(line) /\ frame.lat = lat

C12_DrawsOnlyOnArgument ==
    [][\A X \in 1..Len(axes) :
          (PlotEarth(X) \/ PlotLine(X)) /\ err' = "none" /\ ax # X
              => axes'[ax] = axes[ax] /\ axes'[X] # axes[X]]_vars

====
